---- MODULE Spec2Model ----
(***************************************************************************)
(* MixLens: the rule-based suggestion engine (analyzer/suggestion_engine), *)
(* the feature extractor's result assembly (analyzer/feature_extractor),   *)
(* the analysis pipeline (audio_processor), the process-wide usage         *)
(* counters (metrics) and the upload, analyze, results and visualize       *)
(* endpoints (app).                                                        *)
(*                                                                         *)
(* Numbers.  A Python float is modelled as an integer count of the unit    *)
(* the extractor rounds the field to: hundredths for dB, Hz, percent and   *)
(* BPM fields (round(x, 2)), thousandths for harmonic_ratio and            *)
(* percussive_ratio (round(x, 3)), ten-thousandths for peak_amplitude and  *)
(* zero_crossing_rate (round(x, 4)).  -20.0 dB is -2000, 0.5 is 500.       *)
(* NaN is a float that compares False with everything.                     *)
(***************************************************************************)
EXTENDS Integers, Sequences, FiniteSets, TLC

VARIABLES
    \* ---- SuggestionEngine.generate called on its own -------------------
    features,      \* the `features` argument of the calls to generate
    thresholds,    \* self.thresholds of each SuggestionEngine instance
    returned,      \* per instance: what its calls of generate(features) returned
    \* ---- the API server ------------------------------------------------
    uploads,       \* UPLOAD_FOLDER: file_id -> the stored audio
    results,       \* RESULTS_FOLDER: file_id -> the saved results document
    METRICS,       \* metrics.METRICS
    pc,            \* per analyze request: where its handler is
    req,           \* per analyze request: the handler's local variables
    extension,     \* UPLOAD_FOLDER: file_id -> the extension of the stored file
    response,      \* the last upload, results or visualize request and its answer
    \* ---- AudioProcessor.analyze called on its own ----------------------
    audio_path,    \* the file at the `audio_path` argument: its audio
    analysis       \* the call of analyze: where it is, and its locals

vars == <<features, thresholds, returned, uploads, results, METRICS, pc, req,
          extension, response, audio_path, analysis>>
engineVars == <<features, thresholds, returned>>
serverVars == <<uploads, results, METRICS, pc, req, extension, response>>
apiVars == <<extension, response>>
processorVars == <<audio_path, analysis>>

(***************************************************************************)
(* Python values                                                           *)
(***************************************************************************)
\* None: falsy, and no dict.
None == [none |-> TRUE]
\* {}: the empty dict.
EmptyDict == [k \in {} |-> 0]
\* float('nan'), as np.mean and float() hand it on.
NaN == 0 - 10^9
\* `x is None` in place of `not x`: {} is let through.
FalsyIsNone(x) == x = None
\* `not x` for a dict-or-None x.
Falsy(x) == x = None \/ DOMAIN x = {}
\* d.get(k, default)
get(d, k, default) == IF k \in DOMAIN d THEN d[k] ELSE default
\* a < b and a > b on floats: False when either is NaN.
Lt(a, b) == a # NaN /\ b # NaN /\ a < b
Gt(a, b) == a # NaN /\ b # NaN /\ a > b
Abs(x) == IF x < 0 THEN 0 - x ELSE x

(***************************************************************************)
(* f-string number formatting                                              *)
(***************************************************************************)
Sign(x) == IF x < 0 THEN "-" ELSE ""
\* The digits cut off after the first decimal (int(x * 10) / 10) in place of
\* rounding.
Fmt1Truncating(x) ==
    IF x = NaN THEN "nan"
    ELSE LET t == Abs(x) \div 10
         IN Sign(x) \o ToString(t \div 10) \o "." \o ToString(t % 10)
\* f"{x:.1f}" of a float given in hundredths: correctly rounded to one
\* decimal.  A decimal tie (last digit 5) is an exact tie of the binary
\* value only for .25 and .75, which round half to even; the input sets of
\* this module hold no other value ending in 5.
Fmt1(x) ==
    IF x = NaN THEN "nan"
    ELSE LET a == Abs(x)
             q == a \div 10
             r == a % 10
             t == IF r < 5 THEN q
                  ELSE IF r > 5 THEN q + 1
                  ELSE IF q % 2 = 0 THEN q ELSE q + 1
         IN Sign(x) \o ToString(t \div 10) \o "." \o ToString(t % 10)
\* f"{x:.0f}" of a float given in hundredths: a tie (.50) is exact in binary
\* and rounds half to even.
Fmt0(x) ==
    IF x = NaN THEN "nan"
    ELSE LET a == Abs(x)
             q == a \div 100
             r == a % 100
             t == IF r < 50 THEN q
                  ELSE IF r > 50 THEN q + 1
                  ELSE IF q % 2 = 0 THEN q ELSE q + 1
         IN Sign(x) \o ToString(t)
\* f"{x*100:.1f}" of a ratio given in thousandths: x*100 has one decimal.
FmtPct(x) ==
    IF x = NaN THEN "nan"
    ELSE Sign(x) \o ToString(Abs(x) \div 10) \o "." \o ToString(Abs(x) % 10)

(***************************************************************************)
(* SuggestionEngine                                                        *)
(***************************************************************************)
\* The table with the 'rms_too_quiet' key missing (a misspelt key).
SuggestionEngine__init__NoQuiet ==
    [ rms_too_loud |-> -600,
      dynamic_range_low |-> 600,
      dynamic_range_high |-> 2000,
      spectral_centroid_low |-> 200000,
      spectral_centroid_high |-> 400000,
      spectral_rolloff_low |-> 6000,
      spectral_rolloff_high |-> 9000,
      harmonic_ratio_low |-> 500,
      percussive_ratio_high |-> 600 ]

\* self.thresholds as __init__ sets it (hundredths; the ratios thousandths).
SuggestionEngine__init__ ==
    [ rms_too_quiet |-> -2000,
      rms_too_loud |-> -600,
      dynamic_range_low |-> 600,
      dynamic_range_high |-> 2000,
      spectral_centroid_low |-> 200000,
      spectral_centroid_high |-> 400000,
      spectral_rolloff_low |-> 6000,
      spectral_rolloff_high |-> 9000,
      harmonic_ratio_low |-> 500,
      percussive_ratio_high |-> 600 ]

\* One suggestion string: its leading emoji, its bold category, the tier of
\* the branch that wrote it, its sentence and the numbers formatted into it.
Entry(marker, category, tier, message, values) ==
    [marker |-> marker, category |-> category, tier |-> tier,
     message |-> message, values |-> values]

UnableToExtract ==
    Entry("", "", "info", "Unable to extract features. Please check audio file.", <<>>)

\* The keys an if/elif pair subscripts self.thresholds with: the low one, and
\* the high one when the first comparison is False.
Subscripted(th, v, low, high) ==
    {low} \cup (IF low \in DOMAIN th /\ ~Lt(v, th[low]) THEN {high} ELSE {})

\* The keys a call of generate on a non-empty `extracted` subscripts
\* self.thresholds with (percussive_ratio_high is never read).
ThresholdsRead(th, extracted) ==
    Subscripted(th, get(extracted, "rms_db", 0), "rms_too_quiet", "rms_too_loud")
    \cup Subscripted(th, get(extracted, "dynamic_range_db", 0),
                     "dynamic_range_low", "dynamic_range_high")
    \cup Subscripted(th, get(extracted, "spectral_centroid_hz", 0),
                     "spectral_centroid_low", "spectral_centroid_high")
    \cup Subscripted(th, get(extracted, "spectral_rolloff_percent", 0),
                     "spectral_rolloff_low", "spectral_rolloff_high")
    \cup {"harmonic_ratio_low"}

\* The comparisons written <= and >=.
TierNonStrict(v, low, high) ==
    IF v # NaN /\ v <= low THEN "warning-low"
    ELSE IF v # NaN /\ v >= high THEN "warning-high"
    ELSE "favorable"

\* A check with a low and a high threshold: if v < low / elif v > high / else.
Tier(v, low, high) ==
    IF Lt(v, low) THEN "warning-low"
    ELSE IF Gt(v, high) THEN "warning-high"
    ELSE "favorable"

\* 1. Loudness/RMS analysis
Loudness(th, extracted) ==
    LET rms_db == get(extracted, "rms_db", 0)
        lufs_approx == get(extracted, "lufs_approx", 0)
        tier == Tier(rms_db, th.rms_too_quiet, th.rms_too_loud)
    IN CASE tier = "warning-low" ->
              Entry("speaker", "Loudness", tier, "Track is quiet", <<Fmt1(rms_db)>>)
         [] tier = "warning-high" ->
              Entry("speaker", "Loudness", tier, "Track may be too loud", <<Fmt1(rms_db)>>)
         [] OTHER ->
              Entry("check", "Loudness", tier, "Good level",
                    <<Fmt1(rms_db), Fmt1(lufs_approx)>>)

\* 2. Dynamic Range analysis
DynamicRange(th, extracted) ==
    LET dynamic_range == get(extracted, "dynamic_range_db", 0)
        tier == Tier(dynamic_range, th.dynamic_range_low, th.dynamic_range_high)
    IN CASE tier = "warning-low" ->
              Entry("slider", "Dynamic Range", tier, "Very compressed", <<Fmt1(dynamic_range)>>)
         [] tier = "warning-high" ->
              Entry("slider", "Dynamic Range", tier, "Wide dynamics", <<Fmt1(dynamic_range)>>)
         [] OTHER ->
              Entry("check", "Dynamic Range", tier, "Balanced", <<Fmt1(dynamic_range)>>)

\* 3. Spectral Centroid (brightness)
FrequencyBalance(th, extracted) ==
    LET spectral_centroid == get(extracted, "spectral_centroid_hz", 0)
        tier == Tier(spectral_centroid, th.spectral_centroid_low, th.spectral_centroid_high)
    IN CASE tier = "warning-low" ->
              Entry("note", "Frequency Balance", tier, "Low-end heavy", <<Fmt0(spectral_centroid)>>)
         [] tier = "warning-high" ->
              Entry("note", "Frequency Balance", tier, "Bright mix", <<Fmt0(spectral_centroid)>>)
         [] OTHER ->
              Entry("check", "Frequency Balance", tier, "Well-balanced", <<Fmt0(spectral_centroid)>>)

\* 4. Spectral Rolloff (high-frequency content)
HighFrequencyContent(th, extracted) ==
    LET spectral_rolloff == get(extracted, "spectral_rolloff_percent", 0)
        tier == Tier(spectral_rolloff, th.spectral_rolloff_low, th.spectral_rolloff_high)
    IN CASE tier = "warning-low" ->
              Entry("chart", "High-Frequency Content", tier, "Limited high-end", <<Fmt1(spectral_rolloff)>>)
         [] tier = "warning-high" ->
              Entry("chart", "High-Frequency Content", tier, "Extended high-end", <<Fmt1(spectral_rolloff)>>)
         [] OTHER ->
              Entry("check", "High-Frequency Content", tier, "Appropriate", <<Fmt1(spectral_rolloff)>>)

\* The check with a second branch on the percussive side:
\* elif percussive_ratio > self.thresholds['percussive_ratio_high'].
HarmonicContentPercussive(th, extracted) ==
    LET harmonic_ratio == get(extracted, "harmonic_ratio", 0)
        percussive_ratio == get(extracted, "percussive_ratio", 0)
    IN IF Lt(harmonic_ratio, th.harmonic_ratio_low)
       THEN Entry("guitar", "Harmonic Content", "warning-low", "Low harmonic content",
                  <<FmtPct(harmonic_ratio)>>)
       ELSE IF Gt(percussive_ratio, th.percussive_ratio_high)
       THEN Entry("guitar", "Harmonic Content", "warning-high", "Percussive-heavy",
                  <<FmtPct(percussive_ratio)>>)
       ELSE Entry("check", "Harmonic Content", "favorable", "Good harmonic presence",
                  <<FmtPct(harmonic_ratio)>>)

\* 5. Harmonic vs Percussive content: one threshold, if / else.
HarmonicContent(th, extracted) ==
    LET harmonic_ratio == get(extracted, "harmonic_ratio", 0)
        percussive_ratio == get(extracted, "percussive_ratio", 0)
    IN IF Lt(harmonic_ratio, th.harmonic_ratio_low)
       THEN Entry("guitar", "Harmonic Content", "warning-low", "Low harmonic content",
                  <<FmtPct(harmonic_ratio)>>)
       ELSE Entry("check", "Harmonic Content", "favorable", "Good harmonic presence",
                  <<FmtPct(harmonic_ratio)>>)

\* 6. Tempo analysis: the literals 60 and 180.
Tempo(extracted) ==
    LET tempo == get(extracted, "tempo_bpm", 0)
        tier == Tier(tempo, 6000, 18000)
    IN CASE tier = "warning-low" ->
              Entry("stopwatch", "Tempo", tier, "Slow tempo", <<Fmt1(tempo)>>)
         [] tier = "warning-high" ->
              Entry("stopwatch", "Tempo", tier, "Fast tempo", <<Fmt1(tempo)>>)
         [] OTHER ->
              Entry("check", "Tempo", tier, "BPM detected", <<Fmt1(tempo)>>)

\* The key entry written with the check mark.
KeyDetectionChecked(extracted) ==
    LET estimated_key == get(extracted, "estimated_key", "Unknown")
    IN [marker |-> "check", category |-> "Key Detection", tier |-> "info",
        message |-> "Estimated key is", values |-> <<estimated_key>>]

\* 7. Key detection
KeyDetection(extracted) ==
    LET estimated_key == get(extracted, "estimated_key", "Unknown")
    IN Entry("piano", "Key Detection", "info", "Estimated key is", <<estimated_key>>)

\* len([s for s in suggestions if s.startswith(check mark)])
CountFavorable(suggestions) ==
    Cardinality({i \in 1..Len(suggestions) : suggestions[i].marker = "check"})

total_checks == 7

\* The product truncated: suggestion_count >= int(total_checks * 0.7).
BannerTruncated(suggestion_count) ==
    IF suggestion_count >= (total_checks * 7) \div 10
    THEN [marker |-> "party", category |-> "Overall", tier |-> "positive",
          message |-> "Your mix shows strong technical qualities!", values |-> <<>>]
    ELSE [marker |-> "bulb", category |-> "Overall", tier |-> "improve",
          message |-> "Your mix has room for improvement in several areas.",
          values |-> <<>>]

\* 8. Overall summary: suggestion_count >= total_checks * 0.7
Banner(suggestion_count) ==
    IF 10 * suggestion_count >= total_checks * 7
    THEN Entry("party", "Overall", "positive",
               "Your mix shows strong technical qualities!", <<>>)
    ELSE Entry("bulb", "Overall", "improve",
               "Your mix has room for improvement in several areas.", <<>>)

\* What a call of generate does: it raises (KeyError, on a threshold it
\* subscripts that the table lacks) or returns a list; suggestion_count is the local the banner
\* is chosen by (-1: the early return, which never computes it).
Raised == [raised |-> TRUE, ret |-> <<>>, suggestion_count |-> -1]
Return(list, count) == [raised |-> FALSE, ret |-> list, suggestion_count |-> count]

\* The banner appended (suggestions.append) instead of inserted at 0.
generateBannerLast(th, feats) ==
    LET extracted == get(feats, "extracted_features", EmptyDict)
    IN IF Falsy(extracted) THEN Return(<<UnableToExtract>>, -1)
       ELSE IF ~(ThresholdsRead(th, extracted) \subseteq DOMAIN th) THEN Raised
       ELSE LET suggestions ==
                    << Loudness(th, extracted),
                       DynamicRange(th, extracted),
                       FrequencyBalance(th, extracted),
                       HighFrequencyContent(th, extracted),
                       HarmonicContent(th, extracted),
                       Tempo(extracted),
                       KeyDetection(extracted) >>
                suggestion_count == CountFavorable(suggestions)
            IN Return(suggestions \o <<Banner(suggestion_count)>>, suggestion_count)

generate(th, feats) ==
    LET extracted == get(feats, "extracted_features", EmptyDict)
    IN IF Falsy(extracted) THEN Return(<<UnableToExtract>>, -1)
       ELSE IF ~(ThresholdsRead(th, extracted) \subseteq DOMAIN th) THEN Raised
       ELSE LET suggestions ==
                    << Loudness(th, extracted),
                       DynamicRange(th, extracted),
                       FrequencyBalance(th, extracted),
                       HighFrequencyContent(th, extracted),
                       HarmonicContent(th, extracted),
                       Tempo(extracted),
                       KeyDetection(extracted) >>
                suggestion_count == CountFavorable(suggestions)
            IN Return(<<Banner(suggestion_count)>> \o suggestions, suggestion_count)

(***************************************************************************)
(* generate called on its own: the callers' inputs                         *)
(***************************************************************************)
Engines == {"e1", "e2"}
\* Calls of generate in one run.
MaxCalls == 3

\* Each field at and one step beyond its thresholds.
FullDescriptorSets ==
    [ rms_db : {-2001, -2000, -600, -599},
      lufs_approx : {-4300},
      dynamic_range_db : {599, 600, 2000, 2001},
      spectral_centroid_hz : {199999, 200000, 400000, 400001},
      spectral_rolloff_percent : {5999, 6000, 9000, 9001},
      harmonic_ratio : {499, 500},
      tempo_bpm : {5999, 6000, 18000, 18001},
      estimated_key : {"A"} ]

Fields ==
    { "rms_db", "lufs_approx", "dynamic_range_db", "spectral_centroid_hz",
      "spectral_rolloff_percent", "harmonic_ratio", "tempo_bpm", "estimated_key" }

\* A DescriptorSet with any of its fields missing (none of them: {}).
DescriptorSets ==
    { [k \in S |-> full[k]] : full \in FullDescriptorSets, S \in SUBSET Fields }

\* The `features` mappings generate is called with: without the
\* 'extracted_features' key, with None for it, and with a DescriptorSet.
FeaturesInputs ==
    { [duration_seconds |-> 500], [extracted_features |-> None] }
    \cup { [extracted_features |-> d] : d \in DescriptorSets }

TotalCalls == Len(returned["e1"]) + Len(returned["e2"])

EngineInit ==
    /\ features \in FeaturesInputs
    /\ thresholds = [e \in Engines |-> SuggestionEngine__init__]
    /\ returned = [e \in Engines |-> <<>>]

\* A call that tightens the table it has just used.
ThresholdsAfterAdapting(th) == [th EXCEPT !.rms_too_loud = @ - 1]

\* self.thresholds after a call of generate: generate assigns nothing to it.
ThresholdsAfter(th) == th

\* generate taking the DescriptorSet out of its argument
\* (features.pop('extracted_features', {}) in place of features.get).
GenerateConsuming(e) ==
    /\ TotalCalls < MaxCalls
    /\ returned' = [returned EXCEPT ![e] = Append(@, generate(thresholds[e], features))]
    /\ thresholds' = [thresholds EXCEPT ![e] = ThresholdsAfter(@)]
    /\ features' = [k \in DOMAIN features \ {"extracted_features"} |-> features[k]]
    /\ UNCHANGED <<serverVars, processorVars>>

\* engine.generate(features) on instance e.
Generate(e) ==
    /\ TotalCalls < MaxCalls
    /\ returned' = [returned EXCEPT ![e] = Append(@, generate(thresholds[e], features))]
    /\ thresholds' = [thresholds EXCEPT ![e] = ThresholdsAfter(@)]
    /\ UNCHANGED <<features, serverVars, processorVars>>

(***************************************************************************)
(* FeatureExtractor.extract                                                *)
(*                                                                         *)
(* An audio file is modelled by what librosa and numpy compute from it,    *)
(* each value carrying one digit more than the field is rounded to:        *)
(* thousandths for the fields rounded to 2 decimals, ten-thousandths for   *)
(* the ratios, hundred-thousandths for zcr_mean and the peak amplitude.    *)
(* A step that raises is named by `raises`.                                *)
(***************************************************************************)
\* math.floor(x * 100) / 100 + 0.01 in place of round: one unit above the
\* floor, also where x is a whole number of units already.
roundFloorPlusOne(x) ==
    IF x = NaN THEN NaN ELSE (x \div 10) + 1

\* round(x, n) of a float x given with one digit more than n: to the nearest,
\* an exact tie to even.  A last digit 5 stands for an exact tie of the binary
\* value (-15.125); the other audio values of this module end in no 5.
round(x) ==
    IF x = NaN THEN NaN
    ELSE LET a == Abs(x)
             q == a \div 10
             r == a % 10
             t == IF r < 5 THEN q
                  ELSE IF r > 5 THEN q + 1
                  ELSE IF q % 2 = 0 THEN q ELSE q + 1
         IN IF x < 0 THEN 0 - t ELSE t

\* a - b on floats.
Minus(a, b) == IF a = NaN \/ b = NaN THEN NaN ELSE a - b

keys == <<"C", "C#", "D", "D#", "E", "F", "F#", "G", "G#", "A", "A#", "B">>

\* The last index of the maximum (a scan that compares with >=).
argmaxLast(v) ==
    CHOOSE i \in 0..(Len(v) - 1) :
        /\ \A j \in 0..(Len(v) - 1) : v[j + 1] <= v[i + 1]
        /\ \A j \in (i + 1)..(Len(v) - 1) : v[j + 1] < v[i + 1]

\* np.argmax: the first index (from 0) of the maximum.
argmax(v) ==
    CHOOSE i \in 0..(Len(v) - 1) :
        /\ \A j \in 0..(Len(v) - 1) : v[j + 1] <= v[i + 1]
        /\ \A j \in 0..(i - 1) : v[j + 1] < v[i + 1]

\* np.sum(np.abs(v)) of a sample array.
RECURSIVE SumAbs(_)
SumAbs(v) == IF v = <<>> THEN 0 ELSE Abs(Head(v)) + SumAbs(Tail(v))

\* np.max(np.abs(v)) of a non-empty sample array.
MaxAbs(v) ==
    CHOOSE m \in {Abs(v[i]) : i \in DOMAIN v} : \A i \in DOMAIN v : Abs(v[i]) <= m

\* float(np.sum(np.abs(part)) / (np.sum(np.abs(y)) + 1e-10)) of two sums of
\* sample amplitudes, in ten-thousandths, cut off.  The quotient is not
\* clamped.  A last digit 5 is moved to the side of the tie the quotient is
\* on: the 1e-10 puts a quotient that is a tie exactly just below it.
Ratio(part, whole) ==
    IF whole = 0 THEN 0
    ELSE LET q == (10000 * part) \div whole
             exact == (10000 * part) % whole = 0
         IN IF q % 10 = 5 THEN (IF exact THEN q - 1 ELSE q + 1) ELSE q

target_sr == 22050

\* The offset of the K-weighted loudness formula (-0.691) in place of 23.0.
lufs_approxKWeighted(rms_db) == Minus(rms_db, 691)

\* lufs_approx = rms_db - 23.0, on the unrounded rms_db (thousandths).
lufs_approx(rms_db) == Minus(rms_db, 23000)

\* The operands swapped: rms_db - peak_db.
dynamic_rangeSwapped(peak_db, rms_db) == Minus(rms_db, peak_db)

\* dynamic_range = peak_db - rms_db, on the unrounded values (thousandths).
dynamic_range(peak_db, rms_db) == Minus(peak_db, rms_db)

\* A tone.  y is the loaded waveform and y_harmonic, y_percussive what
\* librosa.effects.hpss(y) returns for it, cut to the samples shown, in
\* thousandths of full scale: the two components are signed and add up to y
\* sample by sample.  The other values are finite.
Tone ==
    [ raises |-> "none", length_samples |-> 110250,
      y |-> <<500, -500>>,
      y_harmonic |-> <<480, -480>>, y_percussive |-> <<20, -20>>,
      tempo |-> 120186, chroma_mean |-> <<1, 1, 1, 1, 1, 1, 1, 1, 1, 9, 2, 1>>,
      rms_db |-> -15032, spectral_centroid_mean |-> 2510334,
      spectral_rolloff_percent |-> 75118, zcr_mean |-> 3994,
      spectral_bandwidth_mean |-> 1200457, peak_db |-> -6021,
      spectral_contrast_mean |-> 21337, mfcc_mean |-> -310442 ]

\* An all-zero waveform: rms and peak are 0, so both dB values are
\* 20 * log10(1e-10) = -200, the spectral statistics are 0 and the mfcc
\* mean is some finite negative number.
Silence ==
    [ raises |-> "none", length_samples |-> 110250,
      y |-> <<0, 0>>, y_harmonic |-> <<0, 0>>, y_percussive |-> <<0, 0>>,
      tempo |-> 0, chroma_mean |-> <<0, 0, 0, 0, 0, 0, 0, 0, 0, 0, 0, 0>>,
      rms_db |-> -200000, spectral_centroid_mean |-> 0,
      spectral_rolloff_percent |-> 0, zcr_mean |-> 0,
      spectral_bandwidth_mean |-> 0, peak_db |-> -200000,
      spectral_contrast_mean |-> 0, mfcc_mean |-> -1131371 ]

\* A waveform on which one transform (the spectral centroid) comes out NaN.
Degenerate == [Tone EXCEPT !.spectral_centroid_mean = NaN]

\* A file a step of extract raises on: librosa.load on an unreadable,
\* corrupt or unsupported file (on a file without samples, np.max).
Corrupt == [Tone EXCEPT !.raises = "load"]

Audios == {Tone, Silence, Degenerate, Corrupt}

\* The dict extract compiles and returns (lines 102-128).
AnalysisResult(y) ==
    LET rms_db == y.rms_db
        peak == 100 * MaxAbs(y.y)
    IN [ duration_seconds |->
             (200 * y.length_samples + target_sr) \div (2 * target_sr),
         sample_rate |-> target_sr,
         extracted_features |->
           [ tempo_bpm |-> round(y.tempo),
             estimated_key |-> keys[argmax(y.chroma_mean) + 1],
             rms_db |-> round(rms_db),
             lufs_approx |-> round(lufs_approx(rms_db)),
             spectral_centroid_hz |-> round(y.spectral_centroid_mean),
             spectral_rolloff_percent |-> round(y.spectral_rolloff_percent),
             zero_crossing_rate |-> round(y.zcr_mean),
             spectral_bandwidth_hz |-> round(y.spectral_bandwidth_mean),
             dynamic_range_db |-> round(dynamic_range(y.peak_db, rms_db)),
             spectral_contrast |-> round(y.spectral_contrast_mean),
             mfcc_mean |-> round(y.mfcc_mean),
             harmonic_ratio |->
                 round(Ratio(SumAbs(y.y_harmonic), SumAbs(y.y))),
             percussive_ratio |->
                 round(Ratio(SumAbs(y.y_percussive), SumAbs(y.y))) ],
         audio_data |->
           [ length_samples |-> y.length_samples,
             peak_amplitude |-> round(peak),
             peak_db |-> round(y.peak_db) ] ]

\* extract: an exception of any step leaves it; it has no try and no
\* finiteness check, so otherwise the dict is returned as computed.
extract(y) ==
    IF y.raises # "none"
    THEN [raised |-> TRUE, ret |-> None]
    ELSE [raised |-> FALSE, ret |-> AnalysisResult(y)]

(***************************************************************************)
(* The audio files extract is checked on                                   *)
(***************************************************************************)
\* Samples kept of a waveform.
MaxSamples == 2
\* Sample amplitudes of a component (thousandths of full scale).
Amplitudes == {-500, -250, 0, 250, 500}

\* The waveforms of 1..MaxSamples samples with their separations: per sample
\* a harmonic and a percussive amplitude, the waveform being their sum.  A
\* waveform that is zero throughout separates into zeros (Silence) and is
\* left out here.
Separations ==
    LET Pairs == Amplitudes \X Amplitudes
        All == UNION { [1..n -> Pairs] : n \in 1..MaxSamples }
        Mix(s) == [i \in DOMAIN s |-> s[i][1] + s[i][2]]
    IN { [ y |-> Mix(s),
           y_harmonic |-> [i \in DOMAIN s |-> s[i][1]],
           y_percussive |-> [i \in DOMAIN s |-> s[i][2]] ] :
         s \in { t \in All : SumAbs(Mix(t)) > 0 } }

\* Unrounded dB values of the loudness and the peak step, in thousandths:
\* last digits on both sides of a rounding step, -15.125 and -6.375 exact
\* ties.  No difference of a peak and an rms value ends in 5.
RmsDbs == {-15032, -15037, -15125, -20004}
PeakDbs == {-6021, -6024, -6375, -1008}

\* Mean chroma vectors: one or two pitch classes above the rest, the two
\* level or not.
Chromas ==
    { [i \in 1..12 |-> IF i = a THEN 3 ELSE IF i = b THEN l ELSE 1] :
          a \in 1..12, b \in 1..12, l \in 1..3 }

Waveforms ==
    Audios
    \cup { [Tone EXCEPT !.y = s.y, !.y_harmonic = s.y_harmonic,
                        !.y_percussive = s.y_percussive] : s \in Separations }
    \cup { [Tone EXCEPT !.rms_db = r, !.peak_db = p] : r \in RmsDbs, p \in PeakDbs }
    \cup { [Tone EXCEPT !.chroma_mean = c] : c \in Chromas }

(***************************************************************************)
(* The API server: uploads and concurrent analyze requests                 *)
(***************************************************************************)
\* Uploads accepted in one run.
MaxUploads == 2
\* Analyze requests in one run; each runs on a thread of its own.
MaxRequests == 2
Requests == 1..MaxRequests
\* time.time() - start_time, in thousandths of a second.
ProcTimes == {1234}
\* file_ids a request may name: the issued ones (1, 2, ...) and 0, which is
\* never issued.
FileIds == 0..MaxUploads

\* The audio files uploaded to the server: two that analyse and differ, and
\* one extract raises on.
Uploadable == {Tone, Degenerate, Corrupt}

\* A handler's locals; `loaded` is the value an augmented assignment has
\* read and not yet stored back (0 outside one).
NoLocals == [file_id |-> 0, analysis_result |-> None, processing_time |-> 0,
             loaded |-> 0, response |-> None]

EngineIdle ==
    /\ features = [extracted_features |-> EmptyDict]
    /\ thresholds = [e \in Engines |-> SuggestionEngine__init__]
    /\ returned = [e \in Engines |-> <<>>]

\* The state once app.py is imported: empty folders, METRICS as defined and
\* initialize_metrics run.
ServerInit ==
    /\ uploads = EmptyDict
    /\ results = EmptyDict
    /\ METRICS = [tracks_processed |-> 0, total_processing_time |-> 0,
                  api_endpoints |-> 6, features_extracted |-> 0,
                  visualizations |-> 0]
    /\ pc = [r \in Requests |-> "idle"]
    /\ req = [r \in Requests |-> NoLocals]
    /\ extension = EmptyDict
    /\ response = None

\* A filename is the sequence of its characters, each a one-character
\* string; "U+97F3" stands for one character outside ASCII.
ALLOWED_EXTENSIONS ==
    { <<"w", "a", "v">>, <<"m", "p", "3">>, <<"f", "l", "a", "c">>,
      <<"m", "4", "a">>, <<"a", "a", "c">> }

ascii_uppercase ==
    << "A", "B", "C", "D", "E", "F", "G", "H", "I", "J", "K", "L", "M",
       "N", "O", "P", "Q", "R", "S", "T", "U", "V", "W", "X", "Y", "Z" >>
ascii_lowercase ==
    << "a", "b", "c", "d", "e", "f", "g", "h", "i", "j", "k", "l", "m",
       "n", "o", "p", "q", "r", "s", "t", "u", "v", "w", "x", "y", "z" >>
digits == { "0", "1", "2", "3", "4", "5", "6", "7", "8", "9" }
Chars(s) == { s[i] : i \in 1..Len(s) }

\* str.lower()
lower(s) ==
    [ i \in 1..Len(s) |->
        IF \E k \in 1..26 : ascii_uppercase[k] = s[i]
        THEN ascii_lowercase[CHOOSE k \in 1..26 : ascii_uppercase[k] = s[i]]
        ELSE s[i] ]

\* s.rsplit(sep, 1): the list of the parts around the last sep, [s] when
\* s holds no sep.
rsplit(s, sep) ==
    IF sep \notin Chars(s) THEN << s >>
    ELSE LET last == CHOOSE i \in 1..Len(s) :
                         s[i] = sep /\ \A j \in (i + 1)..Len(s) : s[j] # sep
         IN << SubSeq(s, 1, last - 1), SubSeq(s, last + 1, Len(s)) >>

\* allowed_file(filename)
allowed_file(filename) ==
    /\ "." \in Chars(filename)
    /\ lower(rsplit(filename, ".")[2]) \in ALLOWED_EXTENSIONS

\* s.strip(chars)
RECURSIVE strip(_, _)
strip(s, chars) ==
    IF s = << >> THEN s
    ELSE IF Head(s) \in chars THEN strip(Tail(s), chars)
    ELSE IF s[Len(s)] \in chars THEN strip(SubSeq(s, 1, Len(s) - 1), chars)
    ELSE s

\* "_".join(s.split()) on a string with no blank at either end: each run of
\* blanks becomes one underscore.
RECURSIVE join_split(_)
join_split(s) ==
    IF s = << >> THEN s
    ELSE IF Head(s) # " " THEN << Head(s) >> \o join_split(Tail(s))
    ELSE IF Head(Tail(s)) = " " THEN join_split(Tail(s))
    ELSE << "_" >> \o join_split(Tail(s))

\* werkzeug.utils.secure_filename: characters outside ASCII are dropped and
\* path separators made blanks; blanks are joined by "_"; what is not a
\* letter, a digit, "_", "." or "-" is removed; leading and trailing "."
\* and "_" are stripped.
secure_filename(filename) ==
    LET Safe == Chars(ascii_uppercase) \cup Chars(ascii_lowercase) \cup digits
                    \cup {"_", ".", "-"}
        ascii == SelectSeq(filename, LAMBDA c : c # "U+97F3")
        blanks == [ i \in 1..Len(ascii) |-> IF ascii[i] = "/" THEN " " ELSE ascii[i] ]
        joined == join_split(strip(blanks, {" "}))
    IN strip(SelectSeq(joined, LAMBDA c : c \in Safe), {".", "_"})

\* The filenames upload requests carry.
Filenames ==
    { << >>,
      <<"t", ".", "w", "a", "v">>,
      <<"t", ".", "W", "a", "V">>,
      <<"m", "y", " ", "t", ".", "M", "P", "3">>,
      <<"t", ".", "t", "x", "t", ".", "f", "l", "a", "c">>,
      <<"t", ".", "m", "4", "a">>,
      <<"/", "t", ".", "a", "a", "c">>,
      <<"t", "w", "a", "v">>,
      <<"t", ".", "t", "x", "t">>,
      <<"t", ".", "w", "a", "v", ".">>,
      <<"t", ".", "w", "a", "v", "e">>,
      <<".", "w", "a", "v">>,
      <<"U+97F3", ".", "m", "p", "3">> }
\* The name the uploads of the analyze runs are sent under.
TrackName == <<"t", ".", "w", "a", "v">>

\* upload_file, lines 47-48: the request carries no 'file' part.
NoFileProvided ==
    /\ response' = [endpoint |-> "upload", status |-> 400, error |-> "No file provided"]
    /\ UNCHANGED <<uploads, results, METRICS, pc, req, extension, engineVars, processorVars>>

\* upload_file, lines 50-53: the part's filename is empty.
NoFileSelected(filename) ==
    /\ filename = << >>
    /\ response' = [endpoint |-> "upload", sent |-> filename, status |-> 400,
                    error |-> "No file selected"]
    /\ UNCHANGED <<uploads, results, METRICS, pc, req, extension, engineVars, processorVars>>

\* upload_file, lines 55-58: allowed_file refuses the filename.
InvalidFileType(filename) ==
    /\ filename # << >>
    /\ ~allowed_file(filename)
    /\ response' = [endpoint |-> "upload", sent |-> filename, status |-> 400,
                    error |-> "Invalid file type"]
    /\ UNCHANGED <<uploads, results, METRICS, pc, req, extension, engineVars, processorVars>>

\* upload_file, lines 61-63: secure_filename left no "." in the name, and
\* filename.rsplit('.', 1)[1] raises IndexError before anything is saved.
UploadRaises(filename) ==
    /\ filename # << >>
    /\ allowed_file(filename)
    /\ Len(rsplit(secure_filename(filename), ".")) < 2
    /\ response' = [endpoint |-> "upload", sent |-> filename, status |-> 500,
                    error |-> "IndexError"]
    /\ UNCHANGED <<uploads, results, METRICS, pc, req, extension, engineVars, processorVars>>

\* The upload saved under the extension as it was sent, not lower-cased.
UploadKeepingCase(filename, audio) ==
    /\ Cardinality(DOMAIN uploads) < MaxUploads
    /\ filename # << >>
    /\ allowed_file(filename)
    /\ Len(rsplit(secure_filename(filename), ".")) = 2
    /\ LET file_id == Cardinality(DOMAIN uploads) + 1
           file_extension == rsplit(secure_filename(filename), ".")[2]
       IN /\ uploads' = [f \in DOMAIN uploads \cup {file_id} |->
                            IF f = file_id THEN audio ELSE uploads[f]]
          /\ extension' = [f \in DOMAIN extension \cup {file_id} |->
                              IF f = file_id THEN file_extension ELSE extension[f]]
          /\ response' = [endpoint |-> "upload", sent |-> filename, status |-> 200,
                          file_id |-> file_id,
                          filename |-> secure_filename(filename)]
    /\ UNCHANGED <<results, METRICS, pc, req, engineVars, processorVars>>

\* upload_file, lines 61-75, an accepted upload: the audio is saved under a
\* fresh file_id and the lower-cased extension of the secured filename.
Upload(filename, audio) ==
    /\ Cardinality(DOMAIN uploads) < MaxUploads
    /\ filename # << >>
    /\ allowed_file(filename)
    /\ Len(rsplit(secure_filename(filename), ".")) = 2
    /\ LET file_id == Cardinality(DOMAIN uploads) + 1
           file_extension == lower(rsplit(secure_filename(filename), ".")[2])
       IN /\ uploads' = [f \in DOMAIN uploads \cup {file_id} |->
                            IF f = file_id THEN audio ELSE uploads[f]]
          /\ extension' = [f \in DOMAIN extension \cup {file_id} |->
                              IF f = file_id THEN file_extension ELSE extension[f]]
          /\ response' = [endpoint |-> "upload", sent |-> filename, status |-> 200,
                          file_id |-> file_id,
                          filename |-> secure_filename(filename)]
    /\ UNCHANGED <<results, METRICS, pc, req, engineVars, processorVars>>

\* analyze_file, lines 84-90, and create_visualizations, lines 45-51: the
\* upload is looked for under each allowed extension.
audio_path_found(file_id) ==
    /\ file_id \in DOMAIN uploads
    /\ extension[file_id] \in ALLOWED_EXTENSIONS

\* Requests are numbered in the order they arrive.
Arrives(r) == pc[r] = "idle" /\ \A q \in 1..(r - 1) : pc[q] # "idle"

\* analyze_file, lines 84-93: no upload of that file_id is a 404.
NotFound(r, file_id) ==
    /\ Arrives(r)
    /\ ~audio_path_found(file_id)
    /\ pc' = [pc EXCEPT ![r] = "done"]
    /\ req' = [req EXCEPT ![r] = [@ EXCEPT !.file_id = file_id,
                  !.response = [status |-> 404, error |-> "File not found"]]]
    /\ UNCHANGED <<uploads, results, METRICS, apiVars, engineVars, processorVars>>

\* analyze_file, lines 84-102: the upload is found and the timer started.
Found(r, file_id) ==
    /\ Arrives(r)
    /\ audio_path_found(file_id)
    /\ pc' = [pc EXCEPT ![r] = "analyze"]
    /\ req' = [req EXCEPT ![r] = [@ EXCEPT !.file_id = file_id]]
    /\ UNCHANGED <<uploads, results, METRICS, apiVars, engineVars, processorVars>>

\* AudioProcessor.analyze on each audio file that can be uploaded: what
\* extract returns (x) and, when it returns, what generate returns on a
\* fresh SuggestionEngine given it (g).
analyze ==
    [ audio \in Uploadable |->
        LET x == extract(audio)
        IN [ x |-> x,
             g |-> IF x.raised THEN [raised |-> TRUE, ret |-> None]
                   ELSE generate(SuggestionEngine__init__, x.ret) ] ]

\* update_features_count(count)
update_features_count(M, count) ==
    IF count > M.features_extracted THEN [M EXCEPT !.features_extracted = count] ELSE M

\* log_analysis run before the analysis is known to have succeeded.
AnalyzeRaisesCounted(r) ==
    /\ pc[r] = "analyze"
    /\ analyze[uploads[req[r].file_id]].x.raised
    /\ pc' = [pc EXCEPT ![r] = "done"]
    /\ req' = [req EXCEPT ![r] = [@ EXCEPT
                  !.response = [status |-> 500, error |-> "exception"]]]
    /\ METRICS' = [METRICS EXCEPT !.tracks_processed = @ + 1]
    /\ UNCHANGED <<uploads, results, apiVars, engineVars, processorVars>>

\* processor.analyze raises (extract does): the except clause answers 500.
AnalyzeRaises(r) ==
    /\ pc[r] = "analyze"
    /\ analyze[uploads[req[r].file_id]].x.raised
    /\ pc' = [pc EXCEPT ![r] = "done"]
    /\ req' = [req EXCEPT ![r] = [@ EXCEPT
                  !.response = [status |-> 500, error |-> "exception"]]]
    /\ UNCHANGED <<uploads, results, METRICS, apiVars, engineVars, processorVars>>

\* analyze run on the file uploaded last (a module-level "current file" in
\* place of the path built from the request's file_id).
AnalyzeReturnsLatestUpload(r, processing_time) ==
    /\ pc[r] = "analyze"
    /\ LET x == analyze[uploads[Cardinality(DOMAIN uploads)]].x
       IN /\ ~x.raised
          /\ LET n == Cardinality(DOMAIN get(x.ret, "extracted_features", EmptyDict))
                 g == analyze[uploads[Cardinality(DOMAIN uploads)]].g
             IN /\ METRICS' = IF n > 0 THEN update_features_count(METRICS, n) ELSE METRICS
                /\ IF g.raised
                   THEN /\ pc' = [pc EXCEPT ![r] = "done"]
                        /\ req' = [req EXCEPT ![r] = [@ EXCEPT
                              !.response = [status |-> 500, error |-> "exception"]]]
                   ELSE /\ pc' = [pc EXCEPT ![r] = "log_tracks_load"]
                        /\ req' = [req EXCEPT ![r] = [@ EXCEPT
                              !.analysis_result =
                                  [ file_id |-> req[r].file_id, features |-> x.ret,
                                    suggestions |-> g.ret, status |-> "completed" ],
                              !.processing_time = processing_time]]
    /\ UNCHANGED <<uploads, results, apiVars, engineVars, processorVars>>

\* AudioProcessor.analyze returns: extract, update_features_count, generate
\* on a fresh SuggestionEngine; then processing_time is taken.
AnalyzeReturns(r, processing_time) ==
    /\ pc[r] = "analyze"
    /\ LET x == analyze[uploads[req[r].file_id]].x
       IN /\ ~x.raised
          /\ LET n == Cardinality(DOMAIN get(x.ret, "extracted_features", EmptyDict))
                 g == analyze[uploads[req[r].file_id]].g
             IN /\ METRICS' = IF n > 0 THEN update_features_count(METRICS, n) ELSE METRICS
                /\ IF g.raised
                   THEN /\ pc' = [pc EXCEPT ![r] = "done"]
                        /\ req' = [req EXCEPT ![r] = [@ EXCEPT
                              !.response = [status |-> 500, error |-> "exception"]]]
                   ELSE /\ pc' = [pc EXCEPT ![r] = "log_tracks_load"]
                        /\ req' = [req EXCEPT ![r] = [@ EXCEPT
                              !.analysis_result =
                                  [ file_id |-> req[r].file_id, features |-> x.ret,
                                    suggestions |-> g.ret, status |-> "completed" ],
                              !.processing_time = processing_time]]
    /\ UNCHANGED <<uploads, results, apiVars, engineVars, processorVars>>

\* log_analysis, METRICS['tracks_processed'] += 1: the subscript is loaded ...
LogTracksLoad(r) ==
    /\ pc[r] = "log_tracks_load"
    /\ req' = [req EXCEPT ![r] = [@ EXCEPT !.loaded = METRICS.tracks_processed]]
    /\ pc' = [pc EXCEPT ![r] = "log_tracks_store"]
    /\ UNCHANGED <<uploads, results, METRICS, apiVars, engineVars, processorVars>>

\* ... and the sum stored: no lock is held between the two.
LogTracksStore(r) ==
    /\ pc[r] = "log_tracks_store"
    /\ METRICS' = [METRICS EXCEPT !.tracks_processed = req[r].loaded + 1]
    /\ req' = [req EXCEPT ![r] = [@ EXCEPT !.loaded = 0]]
    /\ pc' = [pc EXCEPT ![r] = "log_time_load"]
    /\ UNCHANGED <<uploads, results, apiVars, engineVars, processorVars>>

\* METRICS['total_processing_time'] += processing_time, likewise.
LogTimeLoad(r) ==
    /\ pc[r] = "log_time_load"
    /\ req' = [req EXCEPT ![r] = [@ EXCEPT !.loaded = METRICS.total_processing_time]]
    /\ pc' = [pc EXCEPT ![r] = "log_time_store"]
    /\ UNCHANGED <<uploads, results, METRICS, apiVars, engineVars, processorVars>>

LogTimeStore(r) ==
    /\ pc[r] = "log_time_store"
    /\ METRICS' = [METRICS EXCEPT
                     !.total_processing_time = req[r].loaded + req[r].processing_time]
    /\ req' = [req EXCEPT ![r] = [@ EXCEPT !.loaded = 0]]
    /\ pc' = [pc EXCEPT ![r] = "save"]
    /\ UNCHANGED <<uploads, results, apiVars, engineVars, processorVars>>

\* A results file open(results_path, 'w') has created or cut to length 0
\* and json.dump has not yet filled: json.load raises on it.
Truncated == [truncated |-> TRUE]

\* analyze_file, lines 111-116: the rounded time is added to the document
\* and the results file opened for writing, which creates or empties it.
OpenResults(r) ==
    /\ pc[r] = "save"
    /\ LET file_id == req[r].file_id
           doc == [ file_id |-> file_id,
                    features |-> req[r].analysis_result.features,
                    suggestions |-> req[r].analysis_result.suggestions,
                    status |-> "completed",
                    processing_time |-> round(req[r].processing_time) ]
       IN /\ results' = [f \in DOMAIN results \cup {file_id} |->
                            IF f = file_id THEN Truncated ELSE results[f]]
          /\ req' = [req EXCEPT ![r] = [@ EXCEPT !.analysis_result = doc]]
    /\ pc' = [pc EXCEPT ![r] = "dump"]
    /\ UNCHANGED <<uploads, METRICS, apiVars, engineVars, processorVars>>

\* analyze_file, lines 117-119: json.dump writes the document, the file is
\* closed and the document returned with status 200.
Save(r) ==
    /\ pc[r] = "dump"
    /\ results' = [results EXCEPT ![req[r].file_id] = req[r].analysis_result]
    /\ req' = [req EXCEPT ![r] = [@ EXCEPT !.response = [status |-> 200, error |-> ""]]]
    /\ pc' = [pc EXCEPT ![r] = "done"]
    /\ UNCHANGED <<uploads, METRICS, apiVars, engineVars, processorVars>>

\* get_results: 404 when there is no results file, else json.load and 200;
\* json.load raising is not caught, which Flask answers with 500.
get_results(file_id) ==
    /\ response' =
          IF file_id \notin DOMAIN results
          THEN [endpoint |-> "results", file_id |-> file_id, status |-> 404,
                error |-> "Results not found"]
          ELSE IF results[file_id] = Truncated
          THEN [endpoint |-> "results", file_id |-> file_id, status |-> 500,
                error |-> "JSONDecodeError"]
          ELSE [endpoint |-> "results", file_id |-> file_id, status |-> 200,
                body |-> results[file_id]]
    /\ UNCHANGED <<uploads, results, METRICS, pc, req, extension, engineVars, processorVars>>

\* How many of the four charts create_visualizations managed to draw (each
\* _create_* helper returns None when it fails).
VizCounts == 0..4

\* visualize_file, lines 144-145: no results file is a 404.
NotAnalyzed(file_id) ==
    /\ file_id \notin DOMAIN results
    /\ response' = [endpoint |-> "visualize", file_id |-> file_id, status |-> 404,
                    error |-> "File not analyzed yet"]
    /\ UNCHANGED <<uploads, results, METRICS, pc, req, extension, engineVars, processorVars>>

\* update_visualizations_count(count)
update_visualizations_count(M, count) ==
    IF count > M.visualizations THEN [M EXCEPT !.visualizations = count] ELSE M

\* visualize_file, lines 147-159, the results file exists:
\* create_visualizations answers with an error dict when the audio is not
\* found, librosa.load raising is answered 500, and else the charts are
\* drawn, counted and answered 200.
Visualize(file_id, count) ==
    /\ file_id \in DOMAIN results
    /\ IF ~audio_path_found(file_id)
       THEN /\ response' = [endpoint |-> "visualize", file_id |-> file_id,
                            status |-> 200, error |-> "Audio file not found"]
            /\ METRICS' = METRICS
       ELSE IF uploads[file_id].raises = "load"
       THEN /\ response' = [endpoint |-> "visualize", file_id |-> file_id,
                            status |-> 500, error |-> "exception"]
            /\ METRICS' = METRICS
       ELSE /\ response' = [endpoint |-> "visualize", file_id |-> file_id,
                            status |-> 200, visualization_count |-> count]
            /\ METRICS' = update_visualizations_count(METRICS, count)
    /\ UNCHANGED <<uploads, results, pc, req, extension, engineVars, processorVars>>

NextServer ==
    \/ \E audio \in Uploadable : Upload(TrackName, audio)
    \/ \E r \in Requests, file_id \in FileIds : NotFound(r, file_id)
    \/ \E r \in Requests, file_id \in FileIds : Found(r, file_id)
    \/ \E r \in Requests : AnalyzeRaises(r)
    \/ \E r \in Requests, t \in ProcTimes : AnalyzeReturns(r, t)
    \/ \E r \in Requests : LogTracksLoad(r)
    \/ \E r \in Requests : LogTracksStore(r)
    \/ \E r \in Requests : LogTimeLoad(r)
    \/ \E r \in Requests : LogTimeStore(r)
    \/ \E r \in Requests : OpenResults(r)
    \/ \E r \in Requests : Save(r)

\* The upload endpoint on its own, given any of the filenames.
NextUpload ==
    \/ NoFileProvided
    \/ \E filename \in Filenames : NoFileSelected(filename)
    \/ \E filename \in Filenames : InvalidFileType(filename)
    \/ \E filename \in Filenames : UploadRaises(filename)
    \/ \E filename \in Filenames, audio \in Uploadable : Upload(filename, audio)

\* The server with its results and visualize endpoints: each is a request
\* answered while the analyze requests run.
NextApi ==
    \/ NextServer
    \/ \E file_id \in FileIds : get_results(file_id)
    \/ \E file_id \in FileIds : NotAnalyzed(file_id)
    \/ \E file_id \in FileIds, count \in VizCounts : Visualize(file_id, count)

(***************************************************************************)
(* AudioProcessor.analyze                                                  *)
(***************************************************************************)
\* The locals of a call of analyze(audio_path, file_id) and where it is.
NoAnalysis ==
    [pc |-> "idle", features |-> None, suggestions |-> <<>>, result |-> None]

\* No call of analyze is made.
ProcessorIdle ==
    /\ audio_path = None
    /\ analysis = NoAnalysis

\* analyze is called on one audio file.
ProcessorInit ==
    /\ audio_path \in Waveforms
    /\ analysis = [NoAnalysis EXCEPT !.pc = "extract"]

\* self.feature_extractor.extract(audio_path) raises: analyze has no try, so
\* the exception leaves it.
ExtractRaises ==
    /\ analysis.pc = "extract"
    /\ extract(audio_path).raised
    /\ analysis' = [analysis EXCEPT !.pc = "raised"]
    /\ UNCHANGED <<audio_path, engineVars, serverVars>>

\* features = self.feature_extractor.extract(audio_path)
ExtractReturns ==
    /\ analysis.pc = "extract"
    /\ ~extract(audio_path).raised
    /\ analysis' = [analysis EXCEPT !.pc = "count",
                                    !.features = extract(audio_path).ret]
    /\ UNCHANGED <<audio_path, engineVars, serverVars>>

\* if 'extracted_features' in features: update_features_count(len(...)) when
\* the count is positive.
UpdateFeaturesCount ==
    /\ analysis.pc = "count"
    /\ LET n == Cardinality(DOMAIN get(analysis.features, "extracted_features", EmptyDict))
       IN METRICS' = IF n > 0 THEN update_features_count(METRICS, n) ELSE METRICS
    /\ analysis' = [analysis EXCEPT !.pc = "generate"]
    /\ UNCHANGED <<audio_path, engineVars, uploads, results, pc, req, apiVars>>

\* generate handed the DescriptorSet, features['extracted_features'], in
\* place of features.
GenerateSuggestionsOnDescriptors ==
    /\ analysis.pc = "generate"
    /\ LET g == generate(SuggestionEngine__init__, analysis.features.extracted_features)
       IN analysis' = IF g.raised
                      THEN [analysis EXCEPT !.pc = "raised"]
                      ELSE [analysis EXCEPT !.pc = "return", !.suggestions = g.ret]
    /\ UNCHANGED <<audio_path, engineVars, serverVars>>

\* suggestions = self.suggestion_engine.generate(features)
GenerateSuggestions ==
    /\ analysis.pc = "generate"
    /\ LET g == generate(SuggestionEngine__init__, analysis.features)
       IN analysis' = IF g.raised
                      THEN [analysis EXCEPT !.pc = "raised"]
                      ELSE [analysis EXCEPT !.pc = "return", !.suggestions = g.ret]
    /\ UNCHANGED <<audio_path, engineVars, serverVars>>

\* return {'file_id': ..., 'features': ..., 'suggestions': ..., 'status': 'completed'}
\* (the file_id argument is 1).
ReturnResult ==
    /\ analysis.pc = "return"
    /\ analysis' = [analysis EXCEPT !.pc = "returned",
                       !.result = [ file_id |-> 1, features |-> analysis.features,
                                    suggestions |-> analysis.suggestions,
                                    status |-> "completed" ]]
    /\ UNCHANGED <<audio_path, engineVars, serverVars>>

NextProcessor ==
    \/ ExtractRaises
    \/ ExtractReturns
    \/ UpdateFeaturesCount
    \/ GenerateSuggestions
    \/ ReturnResult

(***************************************************************************)
(* Specifications                                                          *)
(***************************************************************************)
\* generate called on any input, on two instances.
Init == EngineInit /\ ServerInit /\ ProcessorIdle
Next == \E e \in Engines : Generate(e)
Spec == Init /\ [][Next]_vars

\* The server: uploads and concurrent analyze requests.
InitServer == EngineIdle /\ ServerInit /\ ProcessorIdle
SpecServer == InitServer /\ [][NextServer]_vars

\* The upload endpoint.
SpecUpload == InitServer /\ [][NextUpload]_vars

\* The server with the results and visualize endpoints.
SpecApi == InitServer /\ [][NextApi]_vars

\* AudioProcessor.analyze called once on any of the audio files.
InitProcessor == EngineIdle /\ ServerInit /\ ProcessorInit
SpecProcessor == InitProcessor /\ [][NextProcessor]_vars

(***************************************************************************)
(* Properties of SuggestionEngine.generate (specification Spec)            *)
(***************************************************************************)
\* Every return value of every call made so far.
Calls == UNION { { returned[e][i] : i \in 1..Len(returned[e]) } : e \in Engines }
\* The DescriptorSet the calls were given ({} when the key is absent).
Given == IF "extracted_features" \in DOMAIN features
         THEN features.extracted_features ELSE EmptyDict
NonEmptyGiven == Given # None /\ DOMAIN Given # {}
\* The value a check reads: the field, or 0 when it is missing.
Field(k) == IF k \in DOMAIN Given THEN Given[k] ELSE 0
\* The tier a value must land in for strict comparisons against low and high.
Band(v, low, high) ==
    IF v < low THEN "warning-low" ELSE IF v > high THEN "warning-high" ELSE "favorable"
Categories ==
    << "Overall", "Loudness", "Dynamic Range", "Frequency Balance",
       "High-Frequency Content", "Harmonic Content", "Tempo", "Key Detection" >>
Favorable(list) == { i \in 1..Len(list) : list[i].tier = "favorable" }

\* C1: every threshold comparison of generate is strict: a value equal to a
\* threshold (-20.0, -6.0, 6.0, 20.0, 2000, 4000, 60, 90, 0.5, 60, 180) is
\* favorable, a value beyond it is the warning of that side.
C1_StrictThresholds ==
    \A r \in Calls : NonEmptyGiven =>
        /\ ~r.raised
        /\ r.ret[2].tier = Band(Field("rms_db"), -2000, -600)
        /\ r.ret[3].tier = Band(Field("dynamic_range_db"), 600, 2000)
        /\ r.ret[4].tier = Band(Field("spectral_centroid_hz"), 200000, 400000)
        /\ r.ret[5].tier = Band(Field("spectral_rolloff_percent"), 6000, 9000)
        /\ r.ret[6].tier = (IF Field("harmonic_ratio") < 500
                            THEN "warning-low" ELSE "favorable")
        /\ r.ret[7].tier = Band(Field("tempo_bpm"), 6000, 18000)
        /\ \A i \in 2..7 : (r.ret[i].marker = "check") <=> (r.ret[i].tier = "favorable")

\* C1 witness: a call on rms_db = -20.0, dynamic_range_db = 6.0, centroid
\* 2000, rolloff 60, harmonic_ratio 0.5, tempo 60 returned six favorable
\* entries.
C1_Witness ==
    /\ NonEmptyGiven
    /\ Fields \subseteq DOMAIN Given
    /\ Given.rms_db = -2000 /\ Given.dynamic_range_db = 600
    /\ Given.spectral_centroid_hz = 200000 /\ Given.spectral_rolloff_percent = 6000
    /\ Given.harmonic_ratio = 500 /\ Given.tempo_bpm = 6000
    /\ \E r \in Calls : \A i \in 2..7 : r.ret[i].tier = "favorable"

\* C2: the leading banner is the positive one iff at least 5 entries are
\* favorable (70% of the fixed 7); otherwise it is the improvement one.
C2_BannerAtFive ==
    \A r \in Calls : NonEmptyGiven =>
        /\ ~r.raised
        /\ r.ret[1].category = "Overall"
        /\ r.ret[1].tier \in {"positive", "improve"}
        /\ (r.ret[1].tier = "positive") <=> (Cardinality(Favorable(r.ret)) >= 5)

\* C2 witness: a call with exactly 5 favorable entries returned the positive
\* banner.
C2_Witness ==
    \E r \in Calls :
        /\ NonEmptyGiven
        /\ Cardinality(Favorable(r.ret)) = 5
        /\ r.ret[1].tier = "positive"

\* C3: for a non-empty DescriptorSet generate returns exactly 8 entries, in
\* the order Overall, Loudness, Dynamic Range, Frequency Balance,
\* High-Frequency Content, Harmonic Content, Tempo, Key Detection: one entry
\* per category, in one tier.
C3_EightInOrder ==
    \A r \in Calls : NonEmptyGiven =>
        /\ ~r.raised
        /\ Len(r.ret) = 8
        /\ \A i \in 1..8 : r.ret[i].category = Categories[i]
        /\ \A i \in 2..7 :
              r.ret[i].tier \in {"favorable", "warning-low", "warning-high"}

\* C3 witness: a call on a DescriptorSet with warnings on both sides
\* (quiet, wide dynamics) returned its 8 entries.
C3_Witness ==
    \E r \in Calls :
        /\ NonEmptyGiven
        /\ Len(r.ret) = 8
        /\ r.ret[2].tier = "warning-low"
        /\ r.ret[3].tier = "warning-high"

\* C4: for extracted_features = {} generate returns exactly one element,
\* the 'Unable to extract features' message: no banner, no category entry.
C4_EmptyGivesOneMessage ==
    \A r \in Calls :
        ("extracted_features" \in DOMAIN features /\ Given # None /\ DOMAIN Given = {}) =>
            /\ ~r.raised
            /\ Len(r.ret) = 1
            /\ r.ret[1].message = "Unable to extract features. Please check audio file."
            /\ r.ret[1].category \notin { Categories[i] : i \in 1..8 }

\* C4 witness: generate was called on extracted_features = {} and returned.
C4_Witness ==
    /\ "extracted_features" \in DOMAIN features
    /\ Given # None /\ DOMAIN Given = {}
    /\ \E r \in Calls : Len(r.ret) = 1

\* C5: generate never raises: without the 'extracted_features' key, with
\* None or {} for it, or with fields missing, it returns a list, and for an
\* empty or absent DescriptorSet that list is the single extraction-failed
\* entry.
C5_NeverRaises ==
    \A r \in Calls :
        /\ ~r.raised
        /\ Len(r.ret) >= 1
        /\ \A i \in 1..Len(r.ret) :
              DOMAIN r.ret[i] = {"marker", "category", "tier", "message", "values"}
        /\ ~NonEmptyGiven => r.ret = <<UnableToExtract>>

\* C5 witness: a call on a DescriptorSet holding estimated_key alone (every
\* numeric field missing) returned a list.
C5_Witness ==
    /\ NonEmptyGiven
    /\ DOMAIN Given = {"estimated_key"}
    /\ \E r \in Calls : ~r.raised /\ Len(r.ret) = 8

\* C6: generate is deterministic: all calls with the same DescriptorSet, on
\* the same or on different SuggestionEngine instances, in any order, return
\* identical lists.
C6_Deterministic ==
    \A e1 \in Engines, e2 \in Engines :
        \A i \in 1..Len(returned[e1]), j \in 1..Len(returned[e2]) :
            returned[e1][i] = returned[e2][j]

\* C6 witness: one instance was called twice and the other once, at a value
\* on a threshold.
C6_Witness ==
    /\ NonEmptyGiven
    /\ Field("rms_db") = -600
    /\ Len(returned["e1"]) = 2
    /\ Len(returned["e2"]) = 1

\* C7: the Key Detection entry is emitted exactly once, after Tempo, and is
\* never counted as favorable: the favorable count the banner is chosen by
\* ranges over the six judged categories (0..6), the divisor being 7.
C7_KeyNotCounted ==
    \A r \in Calls : NonEmptyGiven =>
        /\ { i \in 1..Len(r.ret) : r.ret[i].category = "Key Detection" } = {8}
        /\ r.ret[7].category = "Tempo"
        /\ r.ret[8].marker # "check"
        /\ r.ret[8].tier # "favorable"
        /\ r.suggestion_count = Cardinality(Favorable(SubSeq(r.ret, 2, 7)))
        /\ r.suggestion_count \in 0..6
        /\ (r.ret[1].tier = "positive") <=> (100 * r.suggestion_count >= 70 * 7)

\* C7 witness: all six judged categories favorable, the count is 6 and the
\* key entry is there.
C7_Witness ==
    \E r \in Calls :
        /\ NonEmptyGiven
        /\ r.suggestion_count = 6
        /\ r.ret[8].category = "Key Detection"

\* C13: the numbers a message shows.
\* str(x) of a float given in hundredths: the shortest decimal that reads
\* back as x, with at least one decimal.
Str(x) ==
    LET a == Abs(x)
        d == a % 100
    IN Sign(x) \o ToString(a \div 100) \o "."
       \o (IF d % 10 = 0 THEN ToString(d \div 10)
           ELSE ToString(d \div 10) \o ToString(d % 10))
\* The decimal with one decimal that stands for t tenths (t # 0 or positive).
Shows1(t) == Sign(t) \o ToString(Abs(t) \div 10) \o "." \o ToString(Abs(t) % 10)
\* The decimal without decimals that stands for the whole number n.
Shows0(n) == Sign(n) \o ToString(Abs(n))
\* The string s reads as a number with one decimal inside [low, high].
ShownInside(s, low, high) ==
    \E t \in (low \div 10)..(high \div 10) : s = Shows1(t)
\* The entry e of a check on the value v (hundredths) with the band
\* [low, high] shows v to the nearest tenth, and a warning never shows a
\* number strictly inside the band.
ShowsToOneDecimal(e, v, low, high) ==
    \E t \in ((v \div 10) - 1)..((v \div 10) + 1) :
        /\ e.values[1] = Shows1(t)
        /\ Abs(10 * t - v) <= 5
        /\ e.tier = "warning-low" => 10 * t <= low
        /\ e.tier = "warning-high" => 10 * t >= high

\* C13 as stated: every message shows the value that triggered it exactly
\* as it was received, so a value in a warning band is never shown as a
\* number inside the favorable band.
C13_ShownAsReceived ==
    \A r \in Calls : NonEmptyGiven =>
        /\ r.ret[2].values[1] = Str(Field("rms_db"))
        /\ r.ret[3].values[1] = Str(Field("dynamic_range_db"))
        /\ r.ret[5].values[1] = Str(Field("spectral_rolloff_percent"))
        /\ r.ret[7].values[1] = Str(Field("tempo_bpm"))
        /\ r.ret[2].tier # "favorable" => ~ShownInside(r.ret[2].values[1], -2000, -600)
        /\ r.ret[3].tier # "favorable" => ~ShownInside(r.ret[3].values[1], 600, 2000)
        /\ r.ret[5].tier # "favorable" => ~ShownInside(r.ret[5].values[1], 6000, 9000)
        /\ r.ret[7].tier # "favorable" => ~ShownInside(r.ret[7].values[1], 6000, 18000)

\* C13 amended: every message shows the value that triggered it rounded
\* again by its format: to one decimal (the spectral centroid to none, the
\* harmonic ratio as a percentage with one decimal).  The number shown is
\* within 0.05 (0.5 Hz) of the field, and a warning shows a number outside
\* the favorable band or the threshold itself.
C13_ShownToOneDecimal ==
    \A r \in Calls : NonEmptyGiven =>
        /\ ShowsToOneDecimal(r.ret[2], Field("rms_db"), -2000, -600)
        /\ r.ret[2].tier = "favorable" =>
               \E t \in ((Field("lufs_approx") \div 10) - 1)..((Field("lufs_approx") \div 10) + 1) :
                   /\ r.ret[2].values[2] = Shows1(t)
                   /\ Abs(10 * t - Field("lufs_approx")) <= 5
        /\ ShowsToOneDecimal(r.ret[3], Field("dynamic_range_db"), 600, 2000)
        /\ \E n \in ((Field("spectral_centroid_hz") \div 100) - 1)
                      ..((Field("spectral_centroid_hz") \div 100) + 1) :
               /\ r.ret[4].values[1] = Shows0(n)
               /\ Abs(100 * n - Field("spectral_centroid_hz")) <= 50
               /\ r.ret[4].tier = "warning-low" => 100 * n <= 200000
               /\ r.ret[4].tier = "warning-high" => 100 * n >= 400000
        /\ ShowsToOneDecimal(r.ret[5], Field("spectral_rolloff_percent"), 6000, 9000)
        /\ r.ret[6].values[1] = Shows1(Field("harmonic_ratio"))
        /\ ShowsToOneDecimal(r.ret[7], Field("tempo_bpm"), 6000, 18000)

\* C13 witness: a call on rms_db = -20.01 returned the quiet warning, and
\* the warning shows -20.0.
C13_Witness ==
    /\ NonEmptyGiven
    /\ Field("rms_db") = -2001
    /\ \E r \in Calls : r.ret[2].tier = "warning-low" /\ r.ret[2].values[1] = "-20.0"

\* C19: generate is pure: a call leaves the features mapping handed to it
\* and the instance's thresholds table unchanged, the only state a later
\* call reads, and what earlier calls returned stays as returned.
C19_GenerateIsPure ==
    [][returned' # returned =>
          /\ features' = features
          /\ thresholds' = thresholds
          /\ \A e \in Engines : \A i \in 1..Len(returned[e]) :
                 returned'[e][i] = returned[e][i]]_vars

\* C19 witness: three calls were made on a DescriptorSet, and the thresholds
\* of both instances are those __init__ set.
C19_Witness ==
    /\ NonEmptyGiven
    /\ Fields \subseteq DOMAIN Given
    /\ Len(returned["e1"]) = 1 /\ Len(returned["e2"]) = 2
    /\ \A e \in Engines : thresholds[e] = SuggestionEngine__init__

(***************************************************************************)
(* Properties of the analyze endpoint (specification SpecServer)           *)
(***************************************************************************)
\* Requests whose analysis completed: the handler answered 200.
Completed == { r \in Requests : pc[r] = "done" /\ req[r].response.status = 200 }
Quiescent == \A r \in Requests : pc[r] \in {"idle", "done"}
RECURSIVE SumOfTimes(_)
SumOfTimes(R) ==
    IF R = {} THEN 0
    ELSE LET r == CHOOSE x \in R : TRUE
         IN req[r].processing_time + SumOfTimes(R \ {r})
\* A request that found its upload, on which a step of extract fails.
ExtractFails(r) ==
    /\ pc[r] \in {"analyze", "done"}
    /\ req[r].file_id \in DOMAIN uploads
    /\ uploads[req[r].file_id].raises # "none"
    /\ pc[r] = "done" => req[r].response.status # 404
NumericFields ==
    { "tempo_bpm", "rms_db", "lufs_approx", "spectral_centroid_hz",
      "spectral_rolloff_percent", "zero_crossing_rate", "spectral_bandwidth_hz",
      "dynamic_range_db", "spectral_contrast", "mfcc_mean", "harmonic_ratio",
      "percussive_ratio" }

\* C8: the counters are updated exactly once per completed analysis under
\* any interleaving: once N requests have completed and none is running,
\* tracks_processed = N and total_processing_time is the sum of their times.
C8_NoLostUpdate ==
    Quiescent =>
        /\ METRICS.tracks_processed = Cardinality(Completed)
        /\ METRICS.total_processing_time = SumOfTimes(Completed)

\* C9: extraction is all-or-nothing: a request whose extract fails ends with
\* an error response, no DescriptorSet and no suggestions; no results
\* document exists for its file_id; and the step in which it fails leaves
\* METRICS and the results folder as they were.
C9_AllOrNothing ==
    /\ [](\A r \in Requests :
            (pc[r] = "done" /\ ExtractFails(r)) =>
                /\ req[r].response.status = 500
                /\ req[r].analysis_result = None
                /\ req[r].file_id \notin DOMAIN results)
    /\ [][\A r \in Requests :
            (pc[r] = "analyze" /\ ExtractFails(r) /\ pc'[r] # pc[r]) =>
                /\ pc'[r] = "done"
                /\ METRICS' = METRICS
                /\ results' = results]_vars

\* C9 witness: a request on an undecodable upload has been answered 500.
C9_Witness ==
    \E r \in Requests :
        /\ pc[r] = "done"
        /\ ExtractFails(r)
        /\ req[r].response.status = 500

\* C10: no NaN appears in a field of a DescriptorSet extract returned (and
\* generate was given): a non-finite transform output is surfaced as an
\* error instead.
C10_NoNaNReturned ==
    \A r \in Requests :
        req[r].analysis_result # None =>
            \A k \in NumericFields :
                req[r].analysis_result.features.extracted_features[k] # NaN

\* What one analysis run alone computes on each audio file that can be
\* uploaded: the features extract returns and the suggestions generate
\* derives from them.
RunAlone ==
    [ audio \in Uploadable |->
        LET own == extract(audio).ret
        IN [features |-> own,
            suggestions |-> generate(SuggestionEngine__init__, own).ret] ]

\* C18: concurrent analyses do not interfere: in any interleaving of analyze
\* requests, the features and suggestions a request holds and returns, and
\* the results document saved under a file_id, are those of that file_id's
\* own audio file, as one analysis run alone computes them.
C18_NoInterference ==
    \A f \in DOMAIN uploads :
        LET Own(doc) == /\ doc.file_id = f
                        /\ doc.features = RunAlone[uploads[f]].features
                        /\ doc.suggestions = RunAlone[uploads[f]].suggestions
        IN /\ \A r \in Requests :
                 (req[r].file_id = f /\ req[r].analysis_result # None) =>
                     Own(req[r].analysis_result)
           /\ (f \in DOMAIN results /\ results[f] # Truncated) => Own(results[f])

\* C18 witness: two requests on different uploads of different audio are in
\* flight at once, one past its analysis and not yet saved, and the other
\* has answered 200.
C18_Witness ==
    \E r1 \in Requests, r2 \in Requests :
        /\ pc[r1] = "done" /\ req[r1].response.status = 200
        /\ pc[r2] = "save"
        /\ req[r1].file_id # req[r2].file_id
        /\ uploads[req[r1].file_id] # uploads[req[r2].file_id]
        /\ req[r1].file_id \in DOMAIN results

(***************************************************************************)
(* Claims about FeatureExtractor.extract and AudioProcessor.analyze        *)
(* (SpecProcessor)                                                         *)
(***************************************************************************)
\* extract has returned; Returned is the AnalysisResult it returned and
\* Descriptors its DescriptorSet.
Extracted == analysis.features # None
Returned == analysis.features
Descriptors == analysis.features.extracted_features

\* C11: for every waveform that is split samplewise into a harmonic and a
\* percussive component, the harmonic_ratio and the percussive_ratio extract
\* returns both lie in [0, 1].
C11_RatiosInUnitInterval ==
    Extracted =>
        /\ 0 <= Descriptors.harmonic_ratio /\ Descriptors.harmonic_ratio <= 1000
        /\ 0 <= Descriptors.percussive_ratio /\ Descriptors.percussive_ratio <= 1000

\* C12: for every waveform that is not silent, the returned harmonic_ratio
\* and percussive_ratio add up to 1.0 within 0.05.
C12_RatiosSumToOne ==
    (Extracted /\ SumAbs(audio_path.y) > 0) =>
        Abs(Descriptors.harmonic_ratio + Descriptors.percussive_ratio - 1000) <= 50

\* x rounded again to the precision it was rounded to: x, given in units of
\* that precision, is handed to round with one more digit, a 0.
Again(x) == round(IF x = NaN THEN NaN ELSE 10 * x)

C15_LufsIsRmsMinus23 ==
    Extracted => Descriptors.lufs_approx = Descriptors.rms_db - 2300

\* C15 witness: extract returned for an rms_db of -15.037: -15.04 and -38.04.
C15_Witness ==
    /\ Extracted
    /\ audio_path.rms_db = -15037
    /\ Descriptors.rms_db = -1504 /\ Descriptors.lufs_approx = -3804

\* C16 as stated: the reported dynamic_range_db equals the reported
\* audio_data.peak_db minus the reported rms_db.
C16_ReportedDifference ==
    Extracted =>
        Descriptors.dynamic_range_db = Returned.audio_data.peak_db - Descriptors.rms_db

\* C16 amended: dynamic_range_db is the unrounded peak dB minus the unrounded
\* RMS dB, rounded to 2 decimals; it is within 0.01 of the reported
\* audio_data.peak_db minus the reported rms_db.
C16_DifferenceThenRounded ==
    Extracted =>
        /\ Descriptors.dynamic_range_db = round(audio_path.peak_db - audio_path.rms_db)
        /\ Abs(Descriptors.dynamic_range_db
               - (Returned.audio_data.peak_db - Descriptors.rms_db)) <= 1

\* C16 witness: peak_db = -6.024 and rms_db = -15.037 are reported as -6.02
\* and -15.04, 9.02 apart, and dynamic_range_db as 9.01.
C16_Witness ==
    /\ Extracted
    /\ audio_path.peak_db = -6024 /\ audio_path.rms_db = -15037
    /\ Returned.audio_data.peak_db = -602 /\ Descriptors.rms_db = -1504
    /\ Descriptors.dynamic_range_db = 901

\* C17: per call of analyze, extract completes before generate starts,
\* generate is handed exactly what extract returned, and the result holds
\* that feature set, the suggestions derived from it and status 'completed'.
C17_StrictSequence ==
    /\ [](/\ analysis.pc = "extract" =>
                analysis.features = None /\ analysis.suggestions = <<>>
          /\ analysis.pc \in {"count", "generate"} =>
                /\ analysis.features = extract(audio_path).ret
                /\ analysis.suggestions = <<>>
          /\ analysis.pc \in {"return", "returned"} =>
                /\ analysis.features = extract(audio_path).ret
                /\ analysis.suggestions =
                       generate(SuggestionEngine__init__, analysis.features).ret
          /\ analysis.pc = "returned" =>
                analysis.result = [ file_id |-> 1, features |-> analysis.features,
                                    suggestions |-> analysis.suggestions,
                                    status |-> "completed" ]
          /\ analysis.pc # "returned" => analysis.result = None)
    /\ [][/\ analysis'.suggestions # analysis.suggestions =>
                /\ analysis.pc = "generate"
                /\ analysis.features = extract(audio_path).ret
          /\ analysis.features # None => analysis'.features = analysis.features]_vars

\* C17 witness: analyze returned a result with the banner and seven entries.
C17_Witness ==
    /\ analysis.pc = "returned"
    /\ analysis.result.status = "completed"
    /\ Len(analysis.result.suggestions) = 8
    /\ analysis.result.features = extract(audio_path).ret

\* C20: estimated_key is one of the 12 pitch-class names, the pitch class
\* of maximal mean chroma energy, and of several maximal ones the first in
\* the order C, C#, D, ..., B.
C20_KeyIsFirstMaximum ==
    Extracted =>
        LET c == audio_path.chroma_mean
            Maximal == { i \in 1..12 : \A j \in 1..12 : c[j] <= c[i] }
            first == CHOOSE i \in Maximal : \A j \in Maximal : i <= j
        IN /\ Descriptors.estimated_key \in { keys[i] : i \in 1..12 }
           /\ Descriptors.estimated_key = keys[first]

\* C20 witness: D and G are level above the other pitch classes and D is
\* returned.
C20_Witness ==
    /\ Extracted
    /\ audio_path.chroma_mean[3] = 3 /\ audio_path.chroma_mean[8] = 3
    /\ Descriptors.estimated_key = "D"

\* Other values of percussive_ratio and of the percussive_ratio_high
\* threshold (thousandths) a call of generate is compared with.
OtherPercussive == {0, 600, 601, 3000}

\* C21: the Harmonic Content check has two outcomes: a warning iff
\* harmonic_ratio < 0.5, favorable for every harmonic_ratio >= 0.5 however
\* large; and neither percussive_ratio nor the threshold
\* percussive_ratio_high changes any entry or the banner.
C21_HarmonicTwoOutcomes ==
    analysis.pc \in {"return", "returned"} =>
        /\ analysis.suggestions[6].category = "Harmonic Content"
        /\ analysis.suggestions[6].tier =
               (IF Descriptors.harmonic_ratio < 500 THEN "warning-low" ELSE "favorable")
        /\ \A v \in OtherPercussive, t \in OtherPercussive :
               generate([SuggestionEngine__init__ EXCEPT !.percussive_ratio_high = t],
                        [Returned EXCEPT !.extracted_features.percussive_ratio = v]).ret
                   = analysis.suggestions

\* C21 witness: generate returned for harmonic_ratio = 2.0 and
\* percussive_ratio = 1.0, above percussive_ratio_high, and the Harmonic
\* Content entry is favorable.
C21_Witness ==
    /\ analysis.pc = "returned"
    /\ Descriptors.harmonic_ratio = 2000
    /\ Descriptors.percussive_ratio = 1000
    /\ analysis.suggestions[6].tier = "favorable"

Rejectable(resp) ==
    \/ "sent" \notin DOMAIN resp
    \/ resp.sent = << >>
    \/ "." \notin Chars(resp.sent)
    \/ lower(rsplit(resp.sent, ".")[2]) \notin ALLOWED_EXTENSIONS

\* C24: an upload request with no file, an empty filename or an extension
\* outside wav, mp3, flac, m4a, aac is answered 400 and stores nothing (the
\* uploaded files stay as they were, no file_id is issued); a file is only
\* created by an accepted upload, under a fresh file_id and the lower-cased
\* extension of the filename sent.
C24_RejectedStoresNothing ==
    [][/\ Rejectable(response') =>
              /\ response'.status = 400
              /\ "file_id" \notin DOMAIN response'
              /\ uploads' = uploads
              /\ extension' = extension
       /\ (uploads' # uploads \/ extension' # extension) =>
              /\ response'.status = 200
              /\ response'.file_id \notin DOMAIN uploads
              /\ DOMAIN uploads' = DOMAIN uploads \cup {response'.file_id}
              /\ DOMAIN extension' = DOMAIN uploads'
              /\ \A f \in DOMAIN uploads :
                     uploads'[f] = uploads[f] /\ extension'[f] = extension[f]
              /\ extension'[response'.file_id] = lower(rsplit(response'.sent, ".")[2])
              /\ extension'[response'.file_id] \in ALLOWED_EXTENSIONS]_vars

\* C24 witness: an upload sent with an upper-case extension is stored under
\* the lower-cased one, and the upload after it was refused with 400 and
\* left the folder as it was.
C24_Witness ==
    /\ response # None
    /\ response.status = 400
    /\ "sent" \in DOMAIN response
    /\ response.sent = <<"t", ".", "t", "x", "t">>
    /\ DOMAIN uploads = {1}
    /\ extension[1] = <<"m", "p", "3">>

(***************************************************************************)
(* Claims about the request protocol (SpecApi)                             *)
(***************************************************************************)
\* The last answer came from the results or the visualize endpoint.
Probed(resp) == resp # None /\ resp.endpoint \in {"results", "visualize"}

\* C22: the protocol is ordered per file_id: an analyze request is answered
\* 404 'File not found' unless an upload with its file_id was accepted
\* before; results and visualize answer 404 unless an analyze of that
\* file_id completed with success before; and a results request answered
\* 200 carries the document of a completed analyze of that file_id.
C22_OrderedProtocol ==
    [][/\ \A r \in Requests :
              (pc[r] = "idle" /\ pc'[r] # "idle") =>
                  ((pc'[r] = "done" /\ req'[r].response.status = 404)
                       <=> req'[r].file_id \notin DOMAIN uploads)
       /\ (Probed(response') /\ response'.status # 404) =>
              \E r \in Completed : req[r].file_id = response'.file_id
       /\ (Probed(response') /\ response'.endpoint = "results"
               /\ response'.status = 200) =>
              \E r \in Completed :
                  /\ req[r].file_id = response'.file_id
                  /\ req[r].analysis_result = response'.body]_vars


====
